---- MODULE Spec2Model ----
(***************************************************************************)
(* Model of vae/vae.py: the VAE convenience class.  The constructor builds *)
(* a static TensorFlow graph (placeholder, encoder, latent sample,         *)
(* decoder, prior, three log_prob tensors and the ELBO loss); encode and   *)
(* decode each create a session and call Session.run once.                 *)
(*                                                                         *)
(* Tensors are graph operations, identified by their index in `graph`.     *)
(* Arrays handed to encode/decode are represented by their shapes.  Real   *)
(* arithmetic is exact (rationals as <<numerator, denominator>>).          *)
(***************************************************************************)
EXTENDS Integers, Sequences, FiniteSets, TLC

\* ---------------------------------------------------------------- bounds
MaxDim == 3        \* img_size, batch_size, latent_size, sample_size in 1..MaxDim
MaxCalls == 3      \* number of encode/decode calls made on one object
MaxVal == 1        \* log-probability elements range over -MaxVal..MaxVal

Dims == 1..MaxDim

VARIABLES
    pc,          \* "new" before __init__, "built" once it returned, "init_raised"
    args,        \* the constructor's arguments
    decoder_dim, \* last dimension of the decoder's batch shape (vae.decoder)
    graph,       \* the default graph: sequence of operations
    self,        \* the object's attributes: name -> operation index (0: unset)
    graph0,      \* history: the graph when __init__ returned
    sessions,    \* every session opened by the object: "open" or "closed"
    calls,       \* number of encode/decode calls made so far
    created,     \* history: number of calls whose tf.Session() succeeded
    last         \* what the last encode/decode call did and gave its caller

vars == <<pc, args, decoder_dim, graph, self, graph0, sessions, calls, created, last>>

\* ------------------------------------------------------------ shapes
RECURSIVE Product(_)
Product(s) == IF s = <<>> THEN 1 ELSE Head(s) * Product(Tail(s))

\* s left-padded with ones to length n (numpy/TF broadcasting aligns on the right)
PadLeft(s, n) == [i \in 1..n |-> IF i <= n - Len(s) THEN 1 ELSE s[i - (n - Len(s))]]

MaxOf(a, b) == IF a >= b THEN a ELSE b

\* two shapes broadcast iff, right-aligned, each pair of dims is equal or has a 1
Broadcastable(a, b) ==
    LET n == MaxOf(Len(a), Len(b))
        pa == PadLeft(a, n)
        pb == PadLeft(b, n)
    IN \A i \in 1..n : pa[i] = pb[i] \/ pa[i] = 1 \/ pb[i] = 1

BroadcastShape(a, b) ==
    LET n == MaxOf(Len(a), Len(b))
        pa == PadLeft(a, n)
        pb == PadLeft(b, n)
    IN [i \in 1..n |-> MaxOf(pa[i], pb[i])]

\* ------------------------------------------------------------ graph
\* an operation: its kind, the operations it reads, its static shape, and for a
\* division the Python number it divides by
Op(type, inputs, shape, attr) ==
    [type |-> type, inputs |-> inputs, shape |-> shape, attr |-> attr]

NoAttrs == [input |-> 0, encoder |-> 0, latent |-> 0, decoder |-> 0,
            prior |-> 0, loss |-> 0]

NoCall == [op |-> "none", arg |-> <<>>, outcome |-> "none", error |-> "none",
           value |-> <<>>, lib_error |-> "none", runs |-> 0, session |-> FALSE,
           fetched |-> 0, fed |-> {}, evaluated |-> {}]

Init ==
    /\ pc = "new"
    /\ args \in [img_size : Dims, batch_size : Dims, latent_size : Dims,
                 sample_size : Dims]
    /\ decoder_dim \in {args.latent_size, args.img_size}
    /\ graph = <<>>
    /\ self = NoAttrs
    /\ graph0 = <<>>
    /\ sessions = <<>>
    /\ calls = 0
    /\ created = 0
    /\ last = NoCall

\* ------------------------------------------------------------ __init__
input_shape(a) == <<a.batch_size, a.img_size>>
encoder_batch_shape(a) == <<a.batch_size, a.latent_size>>
latent_shape(a) == <<a.sample_size>> \o encoder_batch_shape(a)
decoder_batch_shape(a, d) == <<a.sample_size, a.batch_size, d>>
prior_batch_shape(a) == <<a.sample_size, a.batch_size, a.latent_size>>

\* lines 35-43: placeholder, encoder, latent sample, decoder, prior
ModelOps(a, d) ==
    << Op("placeholder", <<>>, input_shape(a), 0),
       Op("encoder", <<1>>, encoder_batch_shape(a), 0),
       Op("sample", <<2>>, latent_shape(a), 0),
       Op("decoder", <<3>>, decoder_batch_shape(a, d), 0),
       Op("prior", <<>>, prior_batch_shape(a), 0) >>

ModelAttrs == [input |-> 1, encoder |-> 2, latent |-> 3, decoder |-> 4,
               prior |-> 5, loss |-> 0]

\* dist.log_prob(x): defined iff x broadcasts against the batch shape
LogProbOk(g, dist, x) == Broadcastable(g[dist].shape, g[x].shape)
LogProb(g, dist, x) ==
    Op("log_prob", <<dist, x>>, BroadcastShape(g[dist].shape, g[x].shape), 0)

\* lines 46-52: likelihood, latent_prior, latent_posterior, as (dist, x) pairs
LogProbCalls(s) == << <<s.decoder, s.input>>, <<s.prior, s.latent>>,
                      <<s.encoder, s.latent>> >>

\* the graph after the first k log_prob calls were added to g
RECURSIVE WithLogProbs(_, _, _)
WithLogProbs(g, s, k) ==
    IF k = 0 THEN g
    ELSE LET h == WithLogProbs(g, s, k - 1)
             c == LogProbCalls(s)[k]
         IN Append(h, LogProb(h, c[1], c[2]))

\* number of log_prob calls that succeed before one raises (3: none raises)
RECURSIVE LogProbsDone(_, _, _)
LogProbsDone(g, s, k) ==
    IF k > Len(LogProbCalls(s)) THEN k - 1
    ELSE LET c == LogProbCalls(s)[k]
         IN IF LogProbOk(g, c[1], c[2])
            THEN LogProbsDone(Append(g, LogProb(g, c[1], c[2])), s, k + 1)
            ELSE k - 1

\* a variant of the loss that adds the posterior term instead of subtracting it
LossOps_posterior_added(lik, pri, post, sample_size, n) ==
    << Op("reduce_sum", <<lik>>, <<>>, 0),
       Op("div", <<n + 1>>, <<>>, sample_size),
       Op("reduce_sum", <<pri>>, <<>>, 0),
       Op("div", <<n + 3>>, <<>>, sample_size),
       Op("add", <<n + 2, n + 4>>, <<>>, 0),
       Op("reduce_sum", <<post>>, <<>>, 0),
       Op("div", <<n + 6>>, <<>>, sample_size),
       Op("add", <<n + 5, n + 7>>, <<>>, 0) >>

\* lines 56-60: the operations of the loss, in evaluation order, where lik, pri
\* and post are the three log_prob operations and n the size of the graph so far
LossOps(lik, pri, post, sample_size, n) ==
    << Op("reduce_sum", <<lik>>, <<>>, 0),
       Op("div", <<n + 1>>, <<>>, sample_size),
       Op("reduce_sum", <<pri>>, <<>>, 0),
       Op("div", <<n + 3>>, <<>>, sample_size),
       Op("add", <<n + 2, n + 4>>, <<>>, 0),
       Op("reduce_sum", <<post>>, <<>>, 0),
       Op("div", <<n + 6>>, <<>>, sample_size),
       Op("sub", <<n + 5, n + 7>>, <<>>, 0) >>

VAE_init ==
    /\ pc = "new"
    /\ LET g5 == ModelOps(args, decoder_dim)
           k == LogProbsDone(g5, ModelAttrs, 1)
           g8 == WithLogProbs(g5, ModelAttrs, k)
           g == g8 \o LossOps(6, 7, 8, args.sample_size, 8)
       IN IF k = 3
          THEN /\ pc' = "built"
               /\ graph' = g
               /\ self' = [ModelAttrs EXCEPT !.loss = Len(g)]
               /\ graph0' = g
          ELSE \* a log_prob call raised ValueError: the constructor raises
               /\ pc' = "init_raised"
               /\ graph' = g8
               /\ self' = ModelAttrs
               /\ graph0' = graph0
    /\ UNCHANGED <<args, decoder_dim, sessions, calls, created, last>>

\* ------------------------------------------------------------ Session.run
\* the keyword parameters of tf.Session.run(fetches, feed_dict, options, run_metadata)
SessionRunKeywords == {"feed_dict", "options", "run_metadata"}

\* the keyword under which encode and decode pass their array to Session.run
RunKeyword == "data_dict"

\* the operations a run evaluates to produce op i when the operations in fed
\* are given: the graph is walked back from i and stops at fed tensors
RECURSIVE Needed(_, _, _)
Needed(g, i, fed) ==
    IF i \in fed THEN {}
    ELSE {i} \cup UNION {Needed(g, g[i].inputs[j], fed) : j \in 1..Len(g[i].inputs)}

RunResult(error, value, fed, evaluated) ==
    [error |-> error, value |-> value, fed |-> fed, evaluated |-> evaluated]

\* sess.run(fetch, kw=feed): feed maps operations to the shapes of the arrays
\* given for them.  An unknown keyword is a TypeError raised by the call itself,
\* before anything is fed or evaluated.
Session_run(g, fetch, kw, feed) ==
    IF kw \notin SessionRunKeywords
    THEN RunResult("TypeError", <<>>, {}, {})
    ELSE LET fd == IF kw = "feed_dict" THEN feed ELSE <<>>
             fed == DOMAIN fd
             need == Needed(g, fetch, fed)
         IN IF \E t \in fed : fd[t] # g[t].shape
            THEN RunResult("ValueError", <<>>, {}, {})
            ELSE IF \E t \in need : g[t].type = "placeholder"
            THEN RunResult("InvalidArgumentError", <<>>, fed, {})
            ELSE RunResult("none", g[fetch].shape, fed, need)

\* ------------------------------------------------------------ encode, decode
\* arrays a caller may hand to encode: the documented shape and a wrong one
ImgArrays(a) == {input_shape(a), <<a.batch_size, a.img_size + 1>>}
\* arrays a caller may hand to decode: the documented shape and a wrong one
LatentArrays(a) == {latent_shape(a), encoder_batch_shape(a)}

\* what the library raised during a call: tf.Session() failing, else the run
LibError(sess_ok, r) == IF sess_ok THEN r.error ELSE "InternalError"

\* a variant that catches the library's error and hands the caller None
CallOutcome_swallowing(sess_ok, r) ==
    [outcome |-> "return", error |-> "none",
     value |-> IF LibError(sess_ok, r) # "none" THEN <<>> ELSE r.value,
     runs |-> IF sess_ok THEN 1 ELSE 0]

\* what the caller of encode/decode gets (lines 74-76, 88-90: no try, one run)
CallOutcome(sess_ok, r) ==
    IF LibError(sess_ok, r) # "none"
    THEN [outcome |-> "raise", error |-> LibError(sess_ok, r), value |-> <<>>,
          runs |-> IF sess_ok THEN 1 ELSE 0]
    ELSE [outcome |-> "return", error |-> "none", value |-> r.value, runs |-> 1]

\* a variant that closes the session on leaving (with tf.Session() as sess)
SessionsAfter_closing(ss, sess_ok) == IF sess_ok THEN Append(ss, "closed") ELSE ss

\* sess = tf.Session(): a new open session, never closed by the method
SessionsAfter(ss, sess_ok) == IF sess_ok THEN Append(ss, "open") ELSE ss

CallRecord(op, arg, fetch, sess_ok, r) ==
    LET o == CallOutcome(sess_ok, r)
    IN [op |-> op, arg |-> arg, outcome |-> o.outcome, error |-> o.error,
        value |-> o.value, lib_error |-> LibError(sess_ok, r), runs |-> o.runs,
        session |-> sess_ok,
        fetched |-> IF sess_ok THEN fetch ELSE 0,
        fed |-> IF sess_ok THEN r.fed ELSE {},
        evaluated |-> IF sess_ok THEN r.evaluated ELSE {}]

encode ==
    /\ pc = "built"
    /\ calls < MaxCalls
    /\ \E img \in ImgArrays(args), sess_ok \in BOOLEAN :
         LET r == Session_run(graph, self.latent, RunKeyword, self.input :> img)
         IN /\ sessions' = SessionsAfter(sessions, sess_ok)
            /\ created' = created + (IF sess_ok THEN 1 ELSE 0)
            /\ last' = CallRecord("encode", img, self.latent, sess_ok, r)
    /\ calls' = calls + 1
    /\ UNCHANGED <<pc, args, decoder_dim, graph, self, graph0>>

\* self.decoder.sample(): a new sample operation reading the decoder
DecoderSample(g, s) == Op("sample", <<s.decoder>>, g[s.decoder].shape, 0)

\* a variant of decode that keeps the given array's tensor as self.latent
decode_rebinding ==
    /\ pc = "built"
    /\ calls < MaxCalls
    /\ \E latent \in LatentArrays(args), sess_ok \in BOOLEAN :
         LET g == IF sess_ok THEN Append(graph, DecoderSample(graph, self))
                  ELSE graph
             r == Session_run(g, Len(g), RunKeyword, self.latent :> latent)
         IN /\ graph' = g
            /\ self' = [self EXCEPT !.latent = Len(g)]
            /\ sessions' = SessionsAfter(sessions, sess_ok)
            /\ created' = created + (IF sess_ok THEN 1 ELSE 0)
            /\ last' = CallRecord("decode", latent, Len(g), sess_ok, r)
    /\ calls' = calls + 1
    /\ UNCHANGED <<pc, args, decoder_dim, graph0>>

decode ==
    /\ pc = "built"
    /\ calls < MaxCalls
    /\ \E latent \in LatentArrays(args), sess_ok \in BOOLEAN :
         \* the arguments of sess.run are evaluated before the call: when the
         \* session exists, self.decoder.sample() has added its operation
         LET g == IF sess_ok THEN Append(graph, DecoderSample(graph, self))
                  ELSE graph
             r == Session_run(g, Len(g), RunKeyword, self.latent :> latent)
         IN /\ graph' = g
            /\ sessions' = SessionsAfter(sessions, sess_ok)
            /\ created' = created + (IF sess_ok THEN 1 ELSE 0)
            /\ last' = CallRecord("decode", latent, Len(g), sess_ok, r)
    /\ calls' = calls + 1
    /\ UNCHANGED <<pc, args, decoder_dim, self, graph0>>

Next == VAE_init \/ encode \/ decode

Spec == Init /\ [][Next]_vars

\* construction alone: the graph and the loss are fixed when __init__ returns
SpecBuild == Init /\ [][VAE_init]_vars

\* ------------------------------------------------------------ evaluation
\* exact rationals <<numerator, denominator>>, denominator positive
RatAdd(x, y) == <<x[1] * y[2] + y[1] * x[2], x[2] * y[2]>>
RatSub(x, y) == <<x[1] * y[2] - y[1] * x[2], x[2] * y[2]>>
RatDiv(x, n) == <<x[1], x[2] * n>>
RatEq(x, y) == x[1] * y[2] = y[1] * x[2]

RECURSIVE SumTo(_, _)
SumTo(t, k) == IF k = 0 THEN 0 ELSE t[k] + SumTo(t, k - 1)
Sum(t) == SumTo(t, Len(t))

\* a tensor of n elements around v (elements differ, so counts and sums differ)
Tensor(v, n) == [k \in 1..n |-> v + (k % 2)]

\* the value of operation i when each log_prob operation t has the elements
\* Tensor(env[t], number of elements of t): a flat tensor for a log_prob, a
\* rational for the scalar operations of the loss
RECURSIVE Eval(_, _, _)
Eval(g, i, env) ==
    LET o == g[i]
    IN CASE o.type = "log_prob" -> Tensor(env[i], Product(o.shape))
         [] o.type = "reduce_sum" -> <<Sum(Eval(g, o.inputs[1], env)), 1>>
         [] o.type = "div" -> RatDiv(Eval(g, o.inputs[1], env), o.attr)
         [] o.type = "add" -> RatAdd(Eval(g, o.inputs[1], env), Eval(g, o.inputs[2], env))
         [] o.type = "sub" -> RatSub(Eval(g, o.inputs[1], env), Eval(g, o.inputs[2], env))

LogProbOps(g) == {i \in 1..Len(g) : g[i].type = "log_prob"}
Envs(g) == [LogProbOps(g) -> (0 - MaxVal)..MaxVal]

\* the log_prob operation of distribution dist at tensor x
LogProbOf(g, dist, x) ==
    CHOOSE i \in LogProbOps(g) : g[i].inputs = <<dist, x>>

\* ------------------------------------------------------------ claims

\* C1: encode(img) with a batch_size x img_size array feeds img into the input
\* placeholder and returns a sample_size x batch_size x latent_size array; once
\* the session exists the call completes with a value, not an error.
C1_EncodeReturnsLatent ==
    (last.op = "encode" /\ last.session /\ last.arg = input_shape(args))
        => /\ last.outcome = "return"
           /\ last.value = latent_shape(args)
           /\ last.fetched = self.latent
           /\ self.input \in last.fed

\* C2: decode(latent) with a sample_size x batch_size x latent_size array runs
\* with the latent tensor replaced by the array and returns a sample_size x
\* batch_size x img_size array; the call completes with a value, not an error.
C2_DecodeReturnsImage ==
    (last.op = "decode" /\ last.session /\ last.arg = latent_shape(args))
        => /\ last.outcome = "return"
           /\ last.value = <<args.sample_size, args.batch_size, args.img_size>>
           /\ last.fed = {self.latent}

\* C3: after any sequence of encode and decode calls the graph holds exactly
\* the operations it held when __init__ returned.
C3_GraphStatic == pc = "built" => graph = graph0

\* C4: loss is the scalar (sum of decoder.log_prob(input) + sum of
\* prior.log_prob(latent) - sum of encoder.log_prob(latent)) / sample_size, with
\* the one latent sample drawn from the encoder used by all three terms.
C4_LossIsElbo ==
    pc = "built" =>
        LET lik == LogProbOf(graph, self.decoder, self.input)
            pri == LogProbOf(graph, self.prior, self.latent)
            post == LogProbOf(graph, self.encoder, self.latent)
        IN /\ graph[self.loss].shape = <<>>
           /\ Cardinality(LogProbOps(graph)) = 3
           /\ Cardinality({lik, pri, post}) = 3
           /\ graph[self.latent].type = "sample"
           /\ graph[self.latent].inputs = <<self.encoder>>
           /\ graph[self.decoder].inputs = <<self.latent>>
           /\ \A env \in Envs(graph) :
                 RatEq(Eval(graph, self.loss, env),
                       << Sum(Eval(graph, lik, env)) + Sum(Eval(graph, pri, env))
                            - Sum(Eval(graph, post, env)),
                          args.sample_size >>)

C4_Witness ==
    /\ pc = "built"
    /\ args.sample_size > 1
    /\ args.img_size # args.latent_size
    /\ args.batch_size > 1

\* C5: when creating the session or the run raises, that error reaches the
\* caller unchanged, no value is returned and at most one run was attempted.
C5_ErrorsPropagate ==
    last.lib_error # "none"
        => /\ last.outcome = "raise"
           /\ last.error = last.lib_error
           /\ last.value = <<>>
           /\ last.runs = (IF last.session THEN 1 ELSE 0)

C5_Witness ==
    /\ last.op = "decode"
    /\ last.session
    /\ last.lib_error = "TypeError"
    /\ last.outcome = "raise"

\* C6: with the decoder's batch shape as annotated (sample_size, batch_size,
\* latent_size), every log_prob call of the constructor broadcasts, so the
\* constructor does not raise for any positive sizes.
C6_LogProbsBroadcast ==
    decoder_dim = args.latent_size => pc # "init_raised"

\* C7: decode feeds the latent tensor and so evaluates the decoder sample
\* without needing the input placeholder; encode fetches the latent tensor and
\* evaluates neither the decoder, the prior nor the loss.
C7_TraversalFromFed ==
    /\ (last.op = "decode" /\ last.session /\ last.arg = latent_shape(args))
          => /\ last.fed = {self.latent}
             /\ self.input \notin last.evaluated
             /\ last.error # "InvalidArgumentError"
    /\ (last.op = "encode" /\ last.session /\ last.arg = input_shape(args))
          => /\ last.fetched = self.latent
             /\ self.input \in last.fed
             /\ last.evaluated \cap {self.decoder, self.prior, self.loss} = {}

\* C8: no encode or decode call changes an attribute of the object, nor the
\* operation an attribute refers to.
C8_ReadOnly ==
    [][pc = "built" =>
         /\ self' = self
         /\ \A f \in DOMAIN self : graph'[self'[f]] = graph[self[f]]]_vars

C8_Witness ==
    /\ calls = MaxCalls
    /\ last.op = "encode"
    /\ graph # graph0

\* C9 (as stated): after n calls exactly n sessions were opened, none closed.
C9_OneSessionPerCall ==
    /\ Len(sessions) = calls
    /\ \A i \in 1..Len(sessions) : sessions[i] = "open"

\* C9 (amended): each call opens one session unless tf.Session() itself raises,
\* and never closes it: the sessions opened are as many as the calls whose
\* session creation succeeded, and all of them are still open.
C9_SessionsNeverClosed ==
    /\ Len(sessions) = created
    /\ created <= calls
    /\ \A i \in 1..Len(sessions) : sessions[i] = "open"

C9_Witness ==
    /\ calls = MaxCalls
    /\ created >= 2
    /\ created < calls
====
